---- MODULE Spec2Model ----
(***************************************************************************)
(* new_stable_sort: an adaptive, stable merge sort with branchless small   *)
(* sorts, and the conformance harness that drives it with adversarial      *)
(* comparators.                                                            *)
(*                                                                         *)
(* Memory is modelled as regions of slots: "v" (the caller's slice), "buf" *)
(* (the merge scratch buffer), "swap" (the stack array of sort8/sort16),   *)
(* "tmp" (the lifted element of insert_head/insert_tail) and "stmp" (the   *)
(* one-slot scratch of swap_next_if).  A pointer is <<region, index>>,     *)
(* index 0-based as in the source.  An element is [k, id, cc]: its key,    *)
(* its identity (the index it had in the input) and the counter an         *)
(* instrumented comparator increments.                                     *)
(*                                                                         *)
(* Every function of the sort is an operator from machine record to        *)
(* machine record.  A comparator panic sets m.panicked; from then on the   *)
(* operators do nothing but run the drop guards, as unwinding does.        *)
(***************************************************************************)
EXTENDS Integers, Sequences, FiniteSets, TLC

\* ------------------------------------------------------------------ bounds

\* Keys are i32::MIN, 1 .. MaxKey - 1, i32::MAX.
MaxKey == 2
\* Every sequence over the keys of length 0 .. SmallLen is an input.
SmallLen == 4
\* Seeds of the pseudo-random input patterns and of the random comparator.
NumSeeds == 2
\* The run stacks collapse is applied to on their own: 1 .. MaxRuns runs of
\* 1 .. MaxRunLen elements each.
MaxRuns == 5
MaxRunLen == 3

I32_MAX == 2147483647
I32_MIN == (-I32_MAX) - 1

\* ------------------------------------------------------ program constants

MAX_INSERTION == 20
MAX_PRE_SORT16 == 8
MIN_INSERTION_RUN == 10
STREAK_LEN == 50

\* ---------------------------------------------------------------- elements

Keys == {I32_MIN, I32_MAX} \cup (1 .. (MaxKey - 1))

Elem(k, id) == [k |-> k, id |-> id, cc |-> 0]

\* The content of memory that was never written (MaybeUninit::uninit, a Vec's
\* spare capacity).
Uninit == [k |-> 0, id |-> -1, cc |-> 0]

\* ------------------------------------------------------------------ memory

V(i) == <<"v", i>>
B(i) == <<"buf", i>>
S(i) == <<"swap", i>>
TMP == <<"tmp", 0>>
STMP == <<"stmp", 0>>

add(p, n) == <<p[1], p[2] + n>>

InBounds(m, p) ==
    /\ p[2] >= 0
    /\ p[2] < (CASE p[1] = "v" -> Len(m.v)
                 [] p[1] = "buf" -> Len(m.buf)
                 [] p[1] = "swap" -> Len(m.swap)
                 [] OTHER -> 1)

read(m, p) ==
    IF ~InBounds(m, p) THEN Uninit
    ELSE CASE p[1] = "v" -> m.v[p[2] + 1]
           [] p[1] = "buf" -> m.buf[p[2] + 1]
           [] p[1] = "swap" -> m.swap[p[2] + 1]
           [] p[1] = "tmp" -> m.tmp
           [] OTHER -> m.stmp

write(m, p, e) ==
    IF ~InBounds(m, p) THEN [m EXCEPT !.oob = TRUE]
    ELSE CASE p[1] = "v" -> [m EXCEPT !.v[p[2] + 1] = e]
           [] p[1] = "buf" -> [m EXCEPT !.buf[p[2] + 1] = e]
           [] p[1] = "swap" -> [m EXCEPT !.swap[p[2] + 1] = e]
           [] p[1] = "tmp" -> [m EXCEPT !.tmp = e]
           [] OTHER -> [m EXCEPT !.stmp = e]

\* ptr::copy_nonoverlapping(src, dst, 1), ptr::copy(src, dst, 1), ptr::read.
copy(m, src, dst) ==
    IF ~InBounds(m, src) THEN [m EXCEPT !.oob = TRUE]
    ELSE write(m, dst, read(m, src))

RECURSIVE copy_n(_, _, _, _)
\* ptr::copy_nonoverlapping(src, dst, n): the ranges do not overlap.  The
\* first n \div 2 elements are copied, then the rest; the copy stops once an
\* access has been outside of its allocation.
copy_n(m, src, dst, n) ==
    IF n <= 0 \/ m.oob THEN m
    ELSE IF ~InBounds(m, src) \/ ~InBounds(m, dst) THEN [m EXCEPT !.oob = TRUE]
    ELSE IF n = 1 THEN copy(m, src, dst)
    ELSE copy_n(copy_n(m, src, dst, n \div 2),
                add(src, n \div 2), add(dst, n \div 2), n - n \div 2)

\* ptr::swap_nonoverlapping(a, b, 1)
swap_nonoverlapping(m, a, b) == write(write(m, a, read(m, b)), b, read(m, a))

RECURSIVE reverse_loop(_, _, _, _)
\* The loop of <[T]>::reverse over the n outermost pairs of v[lo..hi]: the
\* first n \div 2 pairs are swapped, then the rest.  Indexing the slice
\* checks its bounds.
reverse_loop(m, lo, hi, n) ==
    IF n <= 0 THEN m
    ELSE IF lo < 0 \/ hi > Len(m.v) THEN [m EXCEPT !.oob = TRUE]
    ELSE IF n = 1 THEN swap_nonoverlapping(m, V(lo), V(hi - 1))
    ELSE reverse_loop(reverse_loop(m, lo, hi, n \div 2),
                      lo + n \div 2, hi - n \div 2, n - n \div 2)

\* v[lo..hi].reverse()
reverse(m, lo, hi) == reverse_loop(m, lo, hi, (hi - lo) \div 2)

\* -------------------------------------------------------------- comparator

\* <i32 as Ord>::cmp
cmp(a, b) ==
    IF a.k < b.k THEN "Less" ELSE IF a.k = b.k THEN "Equal" ELSE "Greater"

\* A variant of lt that answers `a <= b`.
lt_or_equal(a, b) == a.k <= b.k

\* <i32 as PartialOrd>::lt
lt(a, b) == a.k < b.k

\* The pseudo-random orderings of the harness: 0, 1 or 2 for a seed and an index.
random_orderings(seed, n) == ((seed * 7 + n * n * 3 + n * 5 + (n \div 3)) % 11) % 3

Ord3(i) == IF i = 0 THEN "Less" ELSE IF i = 1 THEN "Equal" ELSE "Greater"

\* The closures the harness passes to sort_by.  m.cnt is the number of calls
\* that completed before this one, m.last the pair of keys of the previous call.
compare(m, a, b) ==
    LET c == m.cfg.cmp IN
    CASE c = "natural" -> cmp(a, b)
      [] c = "random" -> Ord3(random_orderings(m.cfg.cseed, m.cnt))
      [] c = "less" -> "Less"
      [] c = "equal" -> "Equal"
      [] c = "greater" -> "Greater"
      [] c = "eq_less" -> IF a.k = b.k THEN "Less" ELSE "Greater"
      [] c = "breaker" ->
            IF a.k = m.last[1] /\ b.k # m.last[2] THEN cmp(b, a) ELSE cmp(a, b)
      [] c = "reversed3" ->
            IF m.cnt % 3 = 2 THEN cmp(b, a) ELSE cmp(a, b)
      [] c = "streak_less" ->
            IF m.cnt % (2 * STREAK_LEN) < STREAK_LEN THEN cmp(a, b) ELSE "Less"
      [] OTHER ->
            IF m.cnt % (2 * STREAK_LEN) < STREAK_LEN THEN cmp(a, b) ELSE "Greater"

\* What the closure handed to stable_sort answers for the elements a and b:
\* a.lt(b) for sort, compare(a, b) == Less for sort_by.
answer(m, a, b) ==
    IF m.cfg.api = "sort" THEN lt(a, b) ELSE compare(m, a, b) = "Less"

\* The comparator's `comp_count += 1` on the element the reference p points
\* at.  A Copy element is a pointer to its counter (*mut CompCount), which is
\* on the heap under the element's id; any other element holds the counter
\* itself (a Cell), and the increment lands in the slot p points at.
count(m, p) ==
    IF m.cfg.is_copy
    THEN IF read(m, p).id \in DOMAIN m.heap
         THEN [m EXCEPT !.heap[read(m, p).id] = @ + 1]
         ELSE m
    ELSE write(m, p, [read(m, p) EXCEPT !.cc = @ + 1])

\* A variant of is_less that catches the comparator's panic and answers false.
is_less_caught(m, pa, pb) ==
    IF m.panicked THEN m
    ELSE IF m.cnt + 1 = m.panicAt
    THEN [m EXCEPT !.thrown = @ + 1, !.lt = FALSE]
    ELSE [count(count(m, pa), pb)
             EXCEPT !.lt = answer(m, read(m, pa), read(m, pb)),
                    !.cnt = @ + 1,
                    !.last = <<read(m, pa).k, read(m, pb).k>>,
                    !.selfcmp = @ \/ (pa = pb),
                    !.oob = @ \/ ~InBounds(m, pa) \/ ~InBounds(m, pb)]

\* One call of the user's comparison through the closure that sort (a.lt(b))
\* or sort_by (compare(a, b) == Less) hands to stable_sort.  The call panics
\* when it is call number m.panicAt; otherwise both arguments' counters are
\* incremented in the slots the references point at, and m.lt is the answer.
is_less(m, pa, pb) ==
    IF m.panicked THEN m
    ELSE IF m.cnt + 1 = m.panicAt
    THEN [m EXCEPT !.panicked = TRUE, !.thrown = @ + 1,
                   !.selfcmp = @ \/ (pa = pb),
                   !.oob = @ \/ ~InBounds(m, pa) \/ ~InBounds(m, pb)]
    ELSE [count(count(m, pa), pb)
             EXCEPT !.lt = answer(m, read(m, pa), read(m, pb)),
                    !.cnt = @ + 1,
                    !.last = <<read(m, pa).k, read(m, pb).k>>,
                    !.selfcmp = @ \/ (pa = pb),
                    !.oob = @ \/ ~InBounds(m, pa) \/ ~InBounds(m, pb)]

\* The rest of a function's body, K, applied to the machine m that a call
\* returned.
bind(m, K(_)) == K(m)

\* The same when the call can panic: a panic unwinds through the function,
\* and the rest of its body does not run.
and_then(m, K(_)) == IF m.panicked THEN m ELSE K(m)

\* ------------------------------------------------------ branchless sorting

swap_next_if(m, p, should_swap) ==
    LET s == IF should_swap THEN 1 ELSE 0
    IN  copy(copy(copy(m, add(p, 1 - s), STMP), add(p, s), p), STMP, add(p, 1))

\* debug_assert!(cond): m.assert records whether every assertion so far held.
debug_assert(m, cond) == [m EXCEPT !.assert = @ /\ cond]

\* The length of &mut v[a..b].
SliceLen(a, b) == b - a

\* A variant of swap_next_if_less that swaps unless p[0] is less than p[1].
swap_next_if_less_or_equal(m, p) ==
    IF m.panicked THEN m
    ELSE and_then(is_less(m, p, add(p, 1)), LAMBDA m1 : swap_next_if(m1, p, ~m1.lt))

swap_next_if_less(m, p) ==
    IF m.panicked THEN m
    ELSE and_then(is_less(m, add(p, 1), p), LAMBDA m1 : swap_next_if(m1, p, m1.lt))

sort2(m, p) ==
    IF m.panicked THEN m
    ELSE swap_next_if_less([m EXCEPT !.network = TRUE], p)

\* A variant of sort3 without the third conditional swap.
sort3_two_swaps(m, p) ==
    IF m.panicked THEN m
    ELSE swap_next_if_less(
             swap_next_if_less([m EXCEPT !.network = TRUE], p),
             add(p, 1))

sort3(m, p) ==
    IF m.panicked THEN m
    ELSE swap_next_if_less(
             swap_next_if_less(
                 swap_next_if_less([m EXCEPT !.network = TRUE], p),
                 add(p, 1)),
             p)

\* A variant of sort4 without its last comparison of the middle pair.
sort4_unfinished(m, p) ==
    IF m.panicked THEN m
    ELSE LET x1 == p
             x2 == add(p, 1)
             x3 == add(p, 2)
         IN  and_then(
                 is_less(swap_next_if_less(
                             swap_next_if_less([m EXCEPT !.network = TRUE], x1),
                             x3),
                         x3, x2),
                 LAMBDA m3 :
                     IF ~m3.lt THEN m3
                     ELSE swap_next_if_less(
                              swap_next_if_less(swap_nonoverlapping(m3, x2, x3), x1),
                              x3))

sort4(m, p) ==
    IF m.panicked THEN m
    ELSE LET x1 == p
             x2 == add(p, 1)
             x3 == add(p, 2)
         IN  and_then(
                 is_less(swap_next_if_less(
                             swap_next_if_less([m EXCEPT !.network = TRUE], x1),
                             x3),
                         x3, x2),
                 LAMBDA m3 :
                     IF ~m3.lt THEN m3
                     ELSE swap_next_if_less(
                              swap_next_if_less(
                                  swap_next_if_less(swap_nonoverlapping(m3, x2, x3), x1),
                                  x3),
                              x2))

\* p lies in the range of m.win.len slots that starts at base.
InRange(m, p, base) ==
    p[1] = base[1] /\ p[2] >= base[2] /\ p[2] < base[2] + m.win.len

\* A step of a parity merge reads at src_left and src_right and writes at
\* dest_lo and dest_hi: m.oob records a cursor outside the source range or a
\* write outside the destination range the caller of the parity merge gave.
cursors(m, src_left, src_right, dest_lo, dest_hi) ==
    [m EXCEPT !.oob = @ \/ ~InRange(m, src_left, m.win.src)
                        \/ ~InRange(m, src_right, m.win.src)
                        \/ ~InRange(m, dest_lo, m.win.dest)
                        \/ ~InRange(m, dest_hi, m.win.dest)]

\* The cursors (src_left, src_right, dest_ptr) are returned in m.cur.
merge_up(m, src_left, src_right, dest_ptr) ==
    and_then(is_less(cursors(m, src_left, src_right, dest_ptr, add(dest_ptr, 1)),
                     src_right, src_left), LAMBDA m1 :
        LET x == IF m1.lt THEN 0 ELSE 1
            y == 1 - x
        IN  [copy(copy(m1, src_right, add(dest_ptr, x)), src_left, add(dest_ptr, y))
                EXCEPT !.cur = <<add(src_left, x), add(src_right, y),
                                 add(dest_ptr, 1)>>])

merge_down(m, src_left, src_right, dest_ptr) ==
    and_then(is_less(cursors(m, src_left, src_right, add(dest_ptr, -1), dest_ptr),
                     src_right, src_left), LAMBDA m1 :
        LET x == IF m1.lt THEN 0 ELSE 1
            y == 1 - x
            d == add(dest_ptr, -1)
        IN  [copy(copy(m1, src_right, add(d, x)), src_left, add(d, y))
                EXCEPT !.cur = <<add(src_left, -y), add(src_right, -x), d>>])

finish_up(m, src_left, src_right, dest_ptr) ==
    and_then(is_less(cursors(m, src_left, src_right, dest_ptr, dest_ptr),
                     src_right, src_left), LAMBDA m1 :
        copy(m1, IF m1.lt THEN src_right ELSE src_left, dest_ptr))

\* A variant of finish_down that compares the left element with itself.
finish_down_self(m, src_left, src_right, dest_ptr) ==
    and_then(is_less(m, src_left, src_left), LAMBDA m1 :
        copy(m1, IF m1.lt THEN src_left ELSE src_right, dest_ptr))

finish_down(m, src_left, src_right, dest_ptr) ==
    and_then(is_less(cursors(m, src_left, src_right, dest_ptr, dest_ptr),
                     src_right, src_left), LAMBDA m1 :
        copy(m1, IF m1.lt THEN src_left ELSE src_right, dest_ptr))

merge_up_cur(m) ==
    IF m.panicked THEN m ELSE merge_up(m, m.cur[1], m.cur[2], m.cur[3])

merge_down_cur(m) ==
    IF m.panicked THEN m ELSE merge_down(m, m.cur[1], m.cur[2], m.cur[3])

finish_up_cur(m) ==
    IF m.panicked THEN m ELSE finish_up(m, m.cur[1], m.cur[2], m.cur[3])

finish_down_cur(m) ==
    IF m.panicked THEN m ELSE finish_down(m, m.cur[1], m.cur[2], m.cur[3])

parity_merge8(m, src_ptr, dest_ptr) ==
    IF m.panicked THEN m
    ELSE and_then(
             finish_up_cur(merge_up_cur(merge_up_cur(merge_up_cur(
                 [m EXCEPT !.cur = <<src_ptr, add(src_ptr, 4), dest_ptr>>,
                           !.win = [src |-> src_ptr, dest |-> dest_ptr, len |-> 8]])))),
             LAMBDA m2 :
                 finish_down_cur(merge_down_cur(merge_down_cur(merge_down_cur(
                     [m2 EXCEPT !.cur = <<add(src_ptr, 3), add(src_ptr, 7),
                                          add(dest_ptr, 7)>>])))))

RECURSIVE parity_merge_loop(_, _, _)
\* The loop of parity_merge: cur are the forward cursors, tcur the backward ones.
parity_merge_loop(m, tcur, block) ==
    IF m.panicked THEN m
    ELSE IF block = 0
    THEN and_then(finish_up_cur(m), LAMBDA m1 :
             finish_down(m1, tcur[1], tcur[2], tcur[3]))
    ELSE and_then(merge_up_cur(m), LAMBDA m1 :
             and_then(merge_down(m1, tcur[1], tcur[2], tcur[3]), LAMBDA m2 :
                 parity_merge_loop([m2 EXCEPT !.cur = m1.cur], m2.cur, block - 1)))

parity_merge(m, src_ptr, dest_ptr, len) ==
    IF m.panicked THEN m
    ELSE LET block == len \div 2
         IN  parity_merge_loop(
                 [m EXCEPT !.cur = <<src_ptr, add(src_ptr, block), dest_ptr>>,
                           !.win = [src |-> src_ptr, dest |-> dest_ptr, len |-> len]],
                 <<add(src_ptr, block - 1), add(src_ptr, len - 1), add(dest_ptr, len - 1)>>,
                 block - 1)

\* mem::MaybeUninit::<[T; N]>::uninit(), N = 8 in sort8 and 16 in sort16.
UninitSwap8 == [i \in 1 .. 8 |-> Uninit]

UninitSwap == [i \in 1 .. 16 |-> Uninit]

\* The quadrant sorts sort8 starts with.
sort8_quadrants(m, p) == sort4(sort4(m, p), add(p, 4))

\* The quadrant sorts sort16 starts with.
sort16_quadrants(m, p) ==
    sort4(sort4(sort4(sort4(m, p), add(p, 4)), add(p, 8)), add(p, 12))

\* is_less(&v[i], &v[i - 1])
border(m, p, i) == is_less(m, add(p, i), add(p, i - 1))

\* The border comparisons of sort16 as `&&` evaluates them: a later one is
\* made only if the earlier ones found their borders in order.
sort16_borders(m, p) ==
    and_then(border(m, p, 4), LAMBDA m1 :
        IF m1.lt THEN m1
        ELSE and_then(border(m1, p, 8), LAMBDA m2 :
                 IF m2.lt THEN m2 ELSE border(m2, p, 12)))

\* A variant of sort8 that copies and merges whatever the border comparison
\* answered.
sort8_unguarded(m, p) ==
    IF m.panicked THEN m
    ELSE and_then(is_less(sort4(sort4(m, p), add(p, 4)), add(p, 4), add(p, 3)),
             LAMBDA m3 :
                 parity_merge8(copy_n([m3 EXCEPT !.swap = UninitSwap8], p, S(0), 8),
                               S(0), p))

sort8(m, p) ==
    IF m.panicked THEN m
    ELSE and_then(is_less(sort4(sort4(debug_assert(m, 8 >= 4 /\ SliceLen(4, 8) >= 4),
                                      p),
                                add(p, 4)),
                          add(p, 4), add(p, 3)),
             LAMBDA m3 :
                 IF ~m3.lt THEN m3
                 ELSE parity_merge8(copy_n([m3 EXCEPT !.swap = UninitSwap8], p, S(0), 8),
                                    S(0), p))

sort16(m, p) ==
    IF m.panicked THEN m
    ELSE and_then(
             is_less(sort4(sort4(sort4(sort4(
                         debug_assert(m, 16 >= 4 /\ SliceLen(4, 16) >= 4
                                         /\ SliceLen(8, 16) >= 4
                                         /\ SliceLen(12, 16) >= 4),
                         p), add(p, 4)), add(p, 8)), add(p, 12)),
                     add(p, 4), add(p, 3)),
             LAMBDA m2 :
             and_then(IF m2.lt THEN m2 ELSE is_less(m2, add(p, 8), add(p, 7)), LAMBDA m3 :
             and_then(IF m3.lt THEN m3 ELSE is_less(m3, add(p, 12), add(p, 11)), LAMBDA m4 :
                 IF ~m4.lt THEN m4
                 ELSE and_then(parity_merge8([m4 EXCEPT !.swap = UninitSwap], p, S(0)),
                               LAMBDA m5 :
                      and_then(parity_merge8(m5, add(p, 8), S(8)), LAMBDA m6 :
                          parity_merge(m6, S(0), p, 16))))))

\* --------------------------------------------------------- insertion sort

\* A variant of InsertionHole's drop that leaves the hole as it is.
InsertionHole_forget(m) == m

\* impl Drop for InsertionHole: copies src (the lifted element) into dest.
\* It runs on the normal path and while a panic unwinds.
InsertionHole_drop(m) == copy(m, TMP, m.hole)

\* hole.dest is a slot of v that holds a copy of one of its neighbours, and v
\* with the lifted element in the place of that slot holds no element twice.
HoleIsDuplicate(m) ==
    LET h == m.hole[2] + 1
        n == Len(m.v)
    IN  /\ m.hole[1] = "v" /\ h >= 1 /\ h <= n
        /\ \/ (h > 1 /\ <<m.v[h].k, m.v[h].id>> = <<m.v[h - 1].k, m.v[h - 1].id>>)
           \/ (h < n /\ <<m.v[h].k, m.v[h].id>> = <<m.v[h + 1].k, m.v[h + 1].id>>)
        /\ Cardinality({<<m.v[i].k, m.v[i].id>> : i \in (1 .. n) \ {h}}
                       \cup {<<m.tmp.k, m.tmp.id>>}) = n

\* The moment of a comparison of insert_tail or insert_head made after the
\* element was lifted: m.holeok records whether HoleIsDuplicate held at each.
at_hole_comparison(m) == [m EXCEPT !.holeok = @ /\ HoleIsDuplicate(m)]

RECURSIVE insert_tail_loop_ties(_, _, _)
\* A variant of insert_tail_loop that also moves the element past the
\* elements equal to it.
insert_tail_loop_ties(m, base, n) ==
    IF m.panicked \/ ~m.lt \/ m.hole[2] <= base THEN m
    ELSE IF n <= 1
    THEN and_then(is_less(at_hole_comparison(m), add(m.hole, -1), TMP), LAMBDA m1 :
             IF m1.lt THEN [m1 EXCEPT !.lt = FALSE]
             ELSE copy([m1 EXCEPT !.hole = add(@, -1), !.lt = TRUE],
                       add(m1.hole, -1), m1.hole))
    ELSE insert_tail_loop_ties(insert_tail_loop_ties(m, base, n \div 2),
                               base, n - n \div 2)

RECURSIVE insert_tail_loop(_, _, _)
\* for j in (0..(i - 1)).rev(): j_ptr is the slot below hole.dest, and the
\* loop is left once a comparison has answered false.  At most n iterations
\* are left: the first n \div 2 of them, then the rest.
insert_tail_loop(m, base, n) ==
    IF m.panicked \/ ~m.lt \/ m.hole[2] <= base THEN m
    ELSE IF n <= 1
    THEN and_then(is_less(at_hole_comparison(m), TMP, add(m.hole, -1)), LAMBDA m1 :
             IF ~m1.lt THEN m1
             ELSE copy([m1 EXCEPT !.hole = add(@, -1)],
                       add(m1.hole, -1), m1.hole))
    ELSE insert_tail_loop(insert_tail_loop(m, base, n \div 2), base, n - n \div 2)

\* insert_tail(&mut v[base..base + len])
insert_tail(m, base, len) ==
    IF m.panicked THEN m
    ELSE LET i == len - 1
             i_ptr == V(base + i)
         IN  and_then(
                 is_less([m EXCEPT !.assert = @ /\ (len >= 2)], i_ptr, add(i_ptr, -1)),
                 LAMBDA m1 :
                     IF ~m1.lt THEN m1
                     ELSE [InsertionHole_drop(
                               insert_tail_loop(
                                   copy([copy(m1, i_ptr, TMP)
                                            EXCEPT !.hole = add(i_ptr, -1), !.lifted = TRUE],
                                        add(i_ptr, -1), i_ptr),
                                   base, i))
                              EXCEPT !.lifted = FALSE])

RECURSIVE insert_head_loop(_, _, _, _)
\* for i in 2..v.len(): v[i] is the slot above hole.dest, and the loop is left
\* once a comparison has answered false.  At most n iterations are left: the
\* first n \div 2 of them, then the rest.
insert_head_loop(m, base, len, n) ==
    IF m.panicked \/ ~m.lt \/ m.hole[2] + 1 >= base + len THEN m
    ELSE IF n <= 1
    THEN and_then(is_less(at_hole_comparison(m), add(m.hole, 1), TMP), LAMBDA m1 :
             IF ~m1.lt THEN m1
             ELSE [copy(m1, add(m1.hole, 1), m1.hole)
                      EXCEPT !.hole = add(@, 1)])
    ELSE insert_head_loop(insert_head_loop(m, base, len, n \div 2),
                          base, len, n - n \div 2)

\* insert_head(&mut v[base..base + len])
insert_head(m, base, len) ==
    IF m.panicked THEN m
    ELSE and_then(
             is_less([m EXCEPT !.assert = @ /\ (len >= 2)], V(base + 1), V(base)),
             LAMBDA m1 :
                 IF ~m1.lt THEN m1
                 ELSE [InsertionHole_drop(
                           insert_head_loop(
                               copy([copy(m1, V(base), TMP)
                                        EXCEPT !.hole = V(base + 1), !.lifted = TRUE],
                                    V(base + 1), V(base)),
                               base, len, len))
                          EXCEPT !.lifted = FALSE])

RECURSIVE insertion_sort_remaining_loop(_, _, _, _)
\* for i in offset..len { insert_tail(&mut v[..=i]) }
insertion_sort_remaining_loop(m, base, len, i) ==
    IF m.panicked \/ i >= len THEN m
    ELSE insertion_sort_remaining_loop(insert_tail(m, base, i + 1), base, len, i + 1)

\* insertion_sort_remaining(&mut v[base..base + len], offset)
insertion_sort_remaining(m, base, len, offset) ==
    IF m.panicked THEN m
    ELSE LET m0 == [m EXCEPT !.assert = @ /\ (offset # 0 /\ offset <= len)]
         IN  IF len < 2 \/ offset = 0 THEN m0
             ELSE insertion_sort_remaining_loop(m0, base, len, offset)

RECURSIVE insert_head_rev(_, _, _, _)
\* for i in (lo..hi).rev() { insert_head(&mut v[i..end]) }
insert_head_rev(m, lo, i, end) ==
    IF m.panicked \/ i < lo THEN m
    ELSE insert_head_rev(insert_head(m, i, end - i), lo, i - 1, end)

\* ------------------------------------------------------------- sort_small

\* A variant of sort_small without the early return for len < 2.
sort_small_unguarded(m) ==
    LET len == Len(m.v) IN
    IF m.cfg.is_copy
    THEN IF len = 2 THEN sort2([m EXCEPT !.assert = @ /\ (len >= 2)], V(0))
         ELSE IF len = 3 THEN sort3([m EXCEPT !.assert = @ /\ (len >= 3)], V(0))
         ELSE IF len < 8 THEN insertion_sort_remaining(sort4(m, V(0)), 0, len, 4)
         ELSE IF len < 16 THEN insertion_sort_remaining(sort8(m, V(0)), 0, len, 8)
         ELSE insertion_sort_remaining(sort16(m, V(0)), 0, len, 16)
    ELSE insert_head_rev(m, 0, len - 2, len)

\* A variant of sort_small that hands the slices of two elements to sort3.
sort_small_sort3(m) ==
    LET len == Len(m.v) IN
    IF len < 2 THEN m
    ELSE IF m.cfg.is_copy
    THEN IF len <= 3 THEN sort3(debug_assert(m, len >= 3), V(0))
         ELSE IF len < 8
         THEN insertion_sort_remaining(
                  sort4(debug_assert(m, SliceLen(0, 4) >= 4), V(0)), 0, len, 4)
         ELSE IF len < 16
         THEN insertion_sort_remaining(
                  sort8(debug_assert(m, SliceLen(0, 8) = 8), V(0)), 0, len, 8)
         ELSE insertion_sort_remaining(
                  sort16(debug_assert(m, SliceLen(0, 16) = 16), V(0)), 0, len, 16)
    ELSE insert_head_rev(m, 0, len - 2, len)

\* sort_small(v): v is the whole slice, len <= MAX_INSERTION.
sort_small(m) ==
    LET len == Len(m.v) IN
    IF len < 2 THEN m
    ELSE IF m.cfg.is_copy
    THEN IF len = 2 THEN sort2([m EXCEPT !.assert = @ /\ (len >= 2)], V(0))
         ELSE IF len = 3 THEN sort3([m EXCEPT !.assert = @ /\ (len >= 3)], V(0))
         ELSE IF len < 8
         THEN insertion_sort_remaining(
                  sort4(debug_assert(m, SliceLen(0, 4) >= 4), V(0)), 0, len, 4)
         ELSE IF len < 16
         THEN insertion_sort_remaining(
                  sort8(debug_assert(m, SliceLen(0, 8) = 8), V(0)), 0, len, 8)
         ELSE insertion_sort_remaining(
                  sort16(debug_assert(m, SliceLen(0, 16) = 16), V(0)), 0, len, 16)
    ELSE insert_head_rev(m, 0, len - 2, len)

\* ------------------------------------------------------------------ merge

\* A variant of MergeHole's drop that copies nothing back.
MergeHole_forget(m) == m

\* impl Drop for MergeHole: copies buf[start..end] into v[dest..].
MergeHole_drop(m) ==
    copy_n(m, B(m.mh.start), V(m.mh.dest), m.mh.end - m.mh.start)

\* The moment of a comparison in merge: m.gap records whether the unconsumed
\* part of buf, hole.start..hole.end, is as long as the gap of n slots that
\* lies between the output cursor and the unconsumed part of the longer run.
at_comparison(m, n) == [m EXCEPT !.gap = @ /\ (m.mh.end - m.mh.start = n)]

RECURSIVE merge_forward_ties_right(_, _, _)
\* A variant of merge_forward that takes the right element unless the left
\* one is strictly less: on a tie the right element goes first.
merge_forward_ties_right(m, v_end, n) ==
    IF m.panicked \/ ~(m.mh.start < m.mh.end /\ m.right < v_end) THEN m
    ELSE IF n <= 1
    THEN and_then(is_less(at_comparison(m, m.right - m.mh.dest),
                          B(m.mh.start), V(m.right)), LAMBDA m1 :
             IF ~m1.lt
             THEN [copy(m1, V(m1.right), V(m1.mh.dest))
                      EXCEPT !.mh.dest = @ + 1, !.right = @ + 1]
             ELSE [copy(m1, B(m1.mh.start), V(m1.mh.dest))
                      EXCEPT !.mh.dest = @ + 1, !.mh.start = @ + 1])
    ELSE merge_forward_ties_right(merge_forward_ties_right(m, v_end, n \div 2), v_end, n - n \div 2)

RECURSIVE merge_forward_twice(_, _, _)
\* A variant of merge_forward that makes every comparison twice.
merge_forward_twice(m, v_end, n) ==
    IF m.panicked \/ ~(m.mh.start < m.mh.end /\ m.right < v_end) THEN m
    ELSE IF n <= 1
    THEN and_then(is_less(is_less(at_comparison(m, m.right - m.mh.dest),
                                  V(m.right), B(m.mh.start)),
                          V(m.right), B(m.mh.start)), LAMBDA m1 :
             IF m1.lt
             THEN [copy(m1, V(m1.right), V(m1.mh.dest))
                      EXCEPT !.mh.dest = @ + 1, !.right = @ + 1]
             ELSE [copy(m1, B(m1.mh.start), V(m1.mh.dest))
                      EXCEPT !.mh.dest = @ + 1, !.mh.start = @ + 1])
    ELSE merge_forward_twice(merge_forward_twice(m, v_end, n \div 2), v_end, n - n \div 2)

RECURSIVE merge_forward(_, _, _)
\* while *left < hole.end && right < v_end: one comparison, then the lesser
\* side is consumed.  left is hole.start, out is hole.dest, right is m.right.
\* At most n iterations are left: the first n \div 2 of them, then the rest.
merge_forward(m, v_end, n) ==
    IF m.panicked \/ ~(m.mh.start < m.mh.end /\ m.right < v_end) THEN m
    ELSE IF n <= 1
    THEN and_then(is_less(at_comparison(m, m.right - m.mh.dest),
                          V(m.right), B(m.mh.start)), LAMBDA m1 :
             IF m1.lt
             THEN [copy(m1, V(m1.right), V(m1.mh.dest))
                      EXCEPT !.mh.dest = @ + 1, !.right = @ + 1]
             ELSE [copy(m1, B(m1.mh.start), V(m1.mh.dest))
                      EXCEPT !.mh.dest = @ + 1, !.mh.start = @ + 1])
    ELSE merge_forward(merge_forward(m, v_end, n \div 2), v_end, n - n \div 2)

RECURSIVE merge_backward_ties_left(_, _, _)
\* A variant of merge_backward that takes the left element unless the right
\* one is strictly greater: on a tie the left element goes last.
merge_backward_ties_left(m, arr_ptr, n) ==
    IF m.panicked \/ ~(arr_ptr < m.mh.dest /\ 0 < m.mh.end) THEN m
    ELSE IF n <= 1
    THEN and_then(is_less(at_comparison(m, m.out - m.mh.dest),
                          V(m.mh.dest - 1), B(m.mh.end - 1)), LAMBDA m1 :
             IF ~m1.lt
             THEN [copy(m1, V(m1.mh.dest - 1), V(m1.out - 1))
                      EXCEPT !.mh.dest = @ - 1, !.out = @ - 1]
             ELSE [copy(m1, B(m1.mh.end - 1), V(m1.out - 1))
                      EXCEPT !.mh.end = @ - 1, !.out = @ - 1])
    ELSE merge_backward_ties_left(merge_backward_ties_left(m, arr_ptr, n \div 2),
                                  arr_ptr, n - n \div 2)

RECURSIVE merge_backward(_, _, _)
\* while arr_ptr < *left && buf < *right: one comparison, then the greater
\* side is consumed.  left is hole.dest, right is hole.end, out is m.out.
\* At most n iterations are left: the first n \div 2 of them, then the rest.
merge_backward(m, arr_ptr, n) ==
    IF m.panicked \/ ~(arr_ptr < m.mh.dest /\ 0 < m.mh.end) THEN m
    ELSE IF n <= 1
    THEN and_then(is_less(at_comparison(m, m.out - m.mh.dest),
                          B(m.mh.end - 1), V(m.mh.dest - 1)), LAMBDA m1 :
             IF m1.lt
             THEN [copy(m1, V(m1.mh.dest - 1), V(m1.out - 1))
                      EXCEPT !.mh.dest = @ - 1, !.out = @ - 1]
             ELSE [copy(m1, B(m1.mh.end - 1), V(m1.out - 1))
                      EXCEPT !.mh.end = @ - 1, !.out = @ - 1])
    ELSE merge_backward(merge_backward(m, arr_ptr, n \div 2), arr_ptr, n - n \div 2)

\* A variant of merge that copies the longer run into buf.
merge_longer(m, base, len, mid) ==
    IF m.panicked THEN m
    ELSE IF mid > len - mid
         THEN MergeHole_drop(
                  merge_forward(
                      [copy_n(m, V(base), B(0), mid)
                          EXCEPT !.mh = [start |-> 0, end |-> mid, dest |-> base],
                                 !.right = base + mid,
                                 !.buflen = mid,
                                 !.bufmax = IF mid > @ THEN mid ELSE @],
                      base + len, len))
         ELSE MergeHole_drop(
                  merge_backward(
                      [copy_n(m, V(base + mid), B(0), len - mid)
                          EXCEPT !.mh = [start |-> 0, end |-> len - mid,
                                         dest |-> base + mid],
                                 !.out = base + len,
                                 !.buflen = len - mid,
                                 !.bufmax = IF len - mid > @ THEN len - mid ELSE @],
                      base, len))

\* merge(&mut v[base..base + len], mid, buf); m.buflen is the number of
\* elements it copies into buf.
merge(m, base, len, mid) ==
    IF m.panicked THEN m
    ELSE IF mid <= len - mid
         THEN MergeHole_drop(
                  merge_forward(
                      [copy_n(m, V(base), B(0), mid)
                          EXCEPT !.mh = [start |-> 0, end |-> mid, dest |-> base],
                                 !.right = base + mid,
                                 !.buflen = mid,
                                 !.bufmax = IF mid > @ THEN mid ELSE @],
                      base + len, len))
         ELSE MergeHole_drop(
                  merge_backward(
                      [copy_n(m, V(base + mid), B(0), len - mid)
                          EXCEPT !.mh = [start |-> 0, end |-> len - mid,
                                         dest |-> base + mid],
                                 !.out = base + len,
                                 !.buflen = len - mid,
                                 !.bufmax = IF len - mid > @ THEN len - mid ELSE @],
                      base, len))

\* -------------------------------------------------------------- merge_sort

\* A variant of collapse that does not force the merges once the top run
\* starts at index 0.
collapse_unforced(runs) ==
    LET n == Len(runs) IN
    IF /\ n >= 2
       /\ \/ runs[n - 1].len <= runs[n].len
          \/ (n >= 3 /\ runs[n - 2].len <= runs[n - 1].len + runs[n].len)
          \/ (n >= 4 /\ runs[n - 3].len <= runs[n - 2].len + runs[n - 1].len)
    THEN IF n >= 3 /\ runs[n - 2].len < runs[n].len THEN n - 2 ELSE n - 1
    ELSE 0

\* A variant of collapse that picks the third-from-top run also when it is as
\* long as the top run.
collapse_ties(runs) ==
    LET n == Len(runs) IN
    IF /\ n >= 2
       /\ \/ runs[n].start = 0
          \/ runs[n - 1].len <= runs[n].len
          \/ (n >= 3 /\ runs[n - 2].len <= runs[n - 1].len + runs[n].len)
          \/ (n >= 4 /\ runs[n - 3].len <= runs[n - 2].len + runs[n - 1].len)
    THEN IF n >= 3 /\ runs[n - 2].len <= runs[n].len THEN n - 2 ELSE n - 1
    ELSE 0

\* A variant of collapse that enforces the invariants on the top three runs
\* only.
collapse_top3(runs) ==
    LET n == Len(runs) IN
    IF /\ n >= 2
       /\ \/ runs[n].start = 0
          \/ runs[n - 1].len <= runs[n].len
          \/ (n >= 3 /\ runs[n - 2].len <= runs[n - 1].len + runs[n].len)
    THEN IF n >= 3 /\ runs[n - 2].len < runs[n].len THEN n - 2 ELSE n - 1
    ELSE 0

\* collapse(runs): r + 1 when runs[r] and runs[r + 1] (0-based) must be merged
\* next, 0 for None.  runs is 1-based here: runs[n] is the top.
collapse(runs) ==
    LET n == Len(runs) IN
    IF /\ n >= 2
       /\ \/ runs[n].start = 0
          \/ runs[n - 1].len <= runs[n].len
          \/ (n >= 3 /\ runs[n - 2].len <= runs[n - 1].len + runs[n].len)
          \/ (n >= 4 /\ runs[n - 3].len <= runs[n - 2].len + runs[n - 1].len)
    THEN IF n >= 3 /\ runs[n - 2].len < runs[n].len THEN n - 2 ELSE n - 1
    ELSE 0

RECURSIVE descending_run_weak(_, _)
\* A variant of descending_run that also goes on over equal elements.
descending_run_weak(m, n) ==
    IF m.panicked \/ ~m.lt \/ m.start <= 0 THEN m
    ELSE IF n <= 1
    THEN and_then(is_less(m, V(m.start - 1), V(m.start)), LAMBDA m1 :
             IF m1.lt THEN [m1 EXCEPT !.lt = FALSE]
             ELSE [m1 EXCEPT !.lt = TRUE, !.start = @ - 1])
    ELSE descending_run_weak(descending_run_weak(m, n \div 2), n - n \div 2)

RECURSIVE descending_run(_, _)
\* while start > 0 && is_less(v[start], v[start - 1]) { start -= 1 }; start is
\* m.start, and the loop is left once a comparison has answered false.  At
\* most n iterations are left: the first n \div 2 of them, then the rest.
descending_run(m, n) ==
    IF m.panicked \/ ~m.lt \/ m.start <= 0 THEN m
    ELSE IF n <= 1
    THEN and_then(is_less(m, V(m.start), V(m.start - 1)), LAMBDA m1 :
             IF ~m1.lt THEN m1 ELSE [m1 EXCEPT !.start = @ - 1])
    ELSE descending_run(descending_run(m, n \div 2), n - n \div 2)

RECURSIVE ascending_run_unchecked(_, _)
\* A variant of ascending_run whose loop tests start >= 0 instead of start > 0.
ascending_run_unchecked(m, n) ==
    IF m.panicked \/ m.lt \/ m.start < 0 THEN m
    ELSE IF n <= 1
    THEN and_then(is_less(m, V(m.start), V(m.start - 1)), LAMBDA m1 :
             IF m1.lt THEN m1 ELSE [m1 EXCEPT !.start = @ - 1])
    ELSE ascending_run_unchecked(ascending_run_unchecked(m, n \div 2), n - n \div 2)

RECURSIVE ascending_run(_, _)
\* while start > 0 && !is_less(v[start], v[start - 1]) { start -= 1 }; start is
\* m.start, and the loop is left once a comparison has answered true.  At
\* most n iterations are left: the first n \div 2 of them, then the rest.
ascending_run(m, n) ==
    IF m.panicked \/ m.lt \/ m.start <= 0 THEN m
    ELSE IF n <= 1
    THEN and_then(is_less(m, V(m.start), V(m.start - 1)), LAMBDA m1 :
             IF m1.lt THEN m1 ELSE [m1 EXCEPT !.start = @ - 1])
    ELSE ascending_run(ascending_run(m, n \div 2), n - n \div 2)

\* The run detection of merge_sort's loop for the boundary end: the natural
\* run ending at end, reversed when strictly descending; its start in m.start.
find_run(m, end) ==
    LET start == end - 1 IN
    IF start <= 0 THEN [m EXCEPT !.start = start]
    ELSE bind(is_less(m, V(start), V(start - 1)), LAMBDA m1 :
             IF m1.panicked THEN [m1 EXCEPT !.start = start - 1]
             ELSE IF m1.lt
             THEN and_then(descending_run([m1 EXCEPT !.start = start - 1], end),
                           LAMBDA m2 : reverse(m2, m2.start, end))
             ELSE ascending_run([m1 EXCEPT !.start = start - 1], end))

\* 0.saturating_sub
saturating_sub(a, b) == IF a >= b THEN a - b ELSE 0

\* A variant of provide_sorted_batch that extends a short run to one element
\* less than MIN_INSERTION_RUN.
provide_sorted_batch_short(m, start, end) ==
    LET start_found == start
        start_end_diff == end - start
        m0 == [m EXCEPT !.assert = @ /\ (end > start)]
    IN  IF m0.cfg.is_copy /\ start_end_diff < MAX_PRE_SORT16 /\ start_found >= 16
        THEN insertion_sort_remaining(
                 sort16([m0 EXCEPT !.start = start_found - 16], V(start_found - 16)),
                 start_found - 16, end - (start_found - 16), 16)
        ELSE IF start_end_diff < MIN_INSERTION_RUN - 1
        THEN insert_head_rev(
                 [m0 EXCEPT !.start = saturating_sub(start,
                                          MIN_INSERTION_RUN - 1 - start_end_diff)],
                 saturating_sub(start, MIN_INSERTION_RUN - 1 - start_end_diff),
                 start_found - 1, end)
        ELSE [m0 EXCEPT !.start = start]

\* A variant of provide_sorted_batch that takes the sort16 path for every
\* element type.
provide_sorted_batch_any_type(m, start, end) ==
    IF end - start < MAX_PRE_SORT16 /\ start >= 16
    THEN insertion_sort_remaining(
             sort16([m EXCEPT !.assert = @ /\ (end > start), !.start = start - 16],
                    V(start - 16)),
             start - 16, end - (start - 16), 16)
    ELSE IF end - start < MIN_INSERTION_RUN
    THEN insert_head_rev(
             [m EXCEPT !.assert = @ /\ (end > start),
                       !.start = saturating_sub(start, MIN_INSERTION_RUN - (end - start))],
             saturating_sub(start, MIN_INSERTION_RUN - (end - start)),
             start - 1, end)
    ELSE [m EXCEPT !.assert = @ /\ (end > start), !.start = start]

\* provide_sorted_batch(v, start, end): the new start is returned in m.start.
provide_sorted_batch(m, start, end) ==
    LET start_found == start
        start_end_diff == end - start
        m0 == [m EXCEPT !.assert = @ /\ (end > start)]
    IN  IF m0.cfg.is_copy /\ start_end_diff < MAX_PRE_SORT16 /\ start_found >= 16
        THEN insertion_sort_remaining(
                 sort16(debug_assert([m0 EXCEPT !.start = start_found - 16],
                                     SliceLen(start_found - 16, start_found) = 16),
                        V(start_found - 16)),
                 start_found - 16, end - (start_found - 16), 16)
        ELSE IF start_end_diff < MIN_INSERTION_RUN
        THEN insert_head_rev(
                 [m0 EXCEPT !.start = saturating_sub(start,
                                          MIN_INSERTION_RUN - start_end_diff)],
                 saturating_sub(start, MIN_INSERTION_RUN - start_end_diff),
                 start_found - 1, end)
        ELSE [m0 EXCEPT !.start = start]

\* The merge of merge_sort's loop body: runs[r + 1] is the left run and runs[r]
\* the right one (0-based r), here runs[r + 1] and runs[r] with r = collapse(runs).
merge_pair(m, runs) ==
    LET r == collapse(runs)
        left == runs[r + 1]
        right == runs[r]
    IN  merge(m, left.start, right.start + right.len - left.start, left.len)

\* A variant of the stack update that keeps the start of the right run.
merged_runs_right_start(runs) ==
    [j \in 1 .. (Len(runs) - 1) |->
        IF j < collapse(runs) THEN runs[j]
        ELSE IF j = collapse(runs)
        THEN [start |-> runs[j].start, len |-> runs[j + 1].len + runs[j].len]
        ELSE runs[j + 1]]

\* A variant of the stack update that leaves the stack as it is.
merged_runs_kept(runs) == runs

\* runs[r] = Run { start: left.start, len: left.len + right.len };
\* runs.remove(r + 1)
merged_runs(runs) ==
    LET r == collapse(runs)
        left == runs[r + 1]
        right == runs[r]
        one == [runs EXCEPT ![r] = [start |-> left.start,
                                    len |-> left.len + right.len]]
    IN  [j \in 1 .. (Len(runs) - 1) |-> IF j <= r THEN one[j] ELSE one[j + 1]]

\* runs.push(Run { start, len: end - start })
push_run(runs, start, end) == Append(runs, [start |-> start, len |-> end - start])

\* let mut buf = Vec::with_capacity(len / 2)
with_capacity(m) == [m EXCEPT !.buf = [i \in 1 .. (Len(m.v) \div 2) |-> Uninit]]

\* debug_assert!(runs.len() == 1 && runs[0].start == 0 && runs[0].len == len)
merge_sort_end(m, runs) ==
    [m EXCEPT !.assert = @ /\ Len(runs) = 1 /\ runs[1].start = 0
                           /\ runs[1].len = Len(m.v)]

RECURSIVE collapse_loop(_, _)
\* while let Some(r) = collapse(&runs) { merge ... } on c = [m, runs], at most
\* n times: the first n \div 2 iterations, then the rest.
collapse_loop(c, n) ==
    IF c.m.panicked \/ collapse(c.runs) = 0 THEN c
    ELSE IF n <= 1
    THEN bind(merge_pair(c.m, c.runs), LAMBDA m1 :
             IF m1.panicked THEN [c EXCEPT !.m = m1]
             ELSE [m |-> m1, runs |-> merged_runs(c.runs)])
    ELSE collapse_loop(collapse_loop(c, n \div 2), n - n \div 2)

\* One iteration of `while end > 0` on c = [m, runs, end]: find the run that
\* ends at end, extend it, push it, and merge while collapse asks for it.
merge_sort_step(c) ==
    bind(find_run(c.m, c.end), LAMBDA m1 :
        IF m1.panicked THEN [c EXCEPT !.m = m1]
        ELSE bind(provide_sorted_batch(m1, m1.start, c.end), LAMBDA m2 :
            IF m2.panicked THEN [c EXCEPT !.m = m2]
            ELSE bind(collapse_loop([m |-> m2,
                                     runs |-> push_run(c.runs, m2.start, c.end)],
                                    Len(c.runs) + 1),
                      LAMBDA d : [m |-> d.m, runs |-> d.runs, end |-> m2.start])))

RECURSIVE merge_sort_loop(_, _)
\* while end > 0 { ... }, at most n times: the first n \div 2 iterations, then
\* the rest.
merge_sort_loop(c, n) ==
    IF c.m.panicked \/ c.end <= 0 THEN c
    ELSE IF n <= 1 THEN merge_sort_step(c)
    ELSE merge_sort_loop(merge_sort_loop(c, n \div 2), n - n \div 2)

\* mem::size_of::<T>()
size_of(cfg) == IF cfg.zst THEN 0 ELSE 4

merge_sort(m) ==
    IF size_of(m.cfg) = 0 THEN m
    ELSE IF Len(m.v) <= MAX_INSERTION THEN sort_small(m)
    ELSE bind(merge_sort_loop([m |-> with_capacity(m), runs |-> <<>>,
                               end |-> Len(m.v)], Len(m.v)),
              LAMBDA c : IF c.m.panicked THEN c.m ELSE merge_sort_end(c.m, c.runs))

stable_sort(m) == IF size_of(m.cfg) = 0 THEN m ELSE merge_sort(m)

\* ------------------------------------------------------------------ inputs

\* Lengths of the pattern inputs: they reach sort8, sort16, the sort16 of
\* provide_sorted_batch, and merges in both directions.
PatternLens == {8, 13, 16, 20, 21, 24, 30}

PatternKinds == {"ascending", "descending", "all_equal", "pipe_organ", "saw"}

SeededKinds == {"random", "random_binary", "int_edge"}

hash(seed, i) == (((seed * 37 + i * 101 + 13) * (i + seed + 7)) \div 7) % 1009

\* patterns::{ascending, descending, all_equal, pipe_organ, saw_mixed,
\* random_uniform} and the extremal values of int_edge: the key at index i of
\* a pattern of length len.
pattern_key(kind, seed, len, i) ==
    CASE kind = "ascending" -> i + 1
      [] kind = "descending" -> len - i
      [] kind = "all_equal" -> 1
      [] kind = "pipe_organ" -> IF i < len \div 2 THEN i + 1 ELSE len - i
      [] kind = "saw" -> IF (i \div 5) % 2 = 0 THEN (i % 5) + 1 ELSE 5 - (i % 5)
      [] kind = "random" -> (hash(seed, i) % len) + 1
      [] kind = "int_edge" ->
            LET h == hash(seed, i) % 7
            IN  IF h = 0 THEN I32_MIN ELSE IF h = 1 THEN I32_MAX ELSE h - 4
      [] OTHER -> (hash(seed, i) % 2) + 1

pattern(kind, seed, len) ==
    [i \in 1 .. len |-> Elem(pattern_key(kind, seed, len, i - 1), i - 1)]

SmallInputs ==
    UNION {{[i \in 1 .. n |-> Elem(ks[i], i - 1)] : ks \in [1 .. n -> Keys]} :
           n \in 0 .. SmallLen}

PatternInputs ==
    {pattern(kind, 0, len) : kind \in PatternKinds, len \in PatternLens}
    \cup {pattern(kind, seed, len) : kind \in SeededKinds,
                                     seed \in 1 .. NumSeeds, len \in PatternLens}

\* Inputs made of natural runs, given as the runs' lengths from the left (a
\* negative length: a strictly descending run).  Every run lies below the run
\* on its left, so that run detection finds exactly these runs and the stack
\* holds several of them.
BlockLayouts ==
    {<<9, 11, 25>>, <<13, 11, 12>>, <<-12, 10, -14>>, <<14, -3, 4, 17>>,
     <<4, 10, 11, 22, 40>>, <<3, 12, 10, 11, 34, 46>>,
     <<1, 10, 11, 22, 34, 57>>}

RECURSIVE block_sum(_, _)
block_sum(layout, n) ==
    IF n = 0 THEN 0
    ELSE (IF layout[n] < 0 THEN -layout[n] ELSE layout[n]) + block_sum(layout, n - 1)

RECURSIVE block_of(_, _, _)
\* The block index i (0-based) falls in, searching from block b.
block_of(layout, i, b) ==
    IF i < block_sum(layout, b) THEN b ELSE block_of(layout, i, b + 1)

blocks(layout) ==
    [i \in 1 .. block_sum(layout, Len(layout)) |->
        LET b == block_of(layout, i - 1, 1)
            pos == (i - 1) - block_sum(layout, b - 1)
            base == (Len(layout) - b) * 100
        IN  Elem(IF layout[b] < 0 THEN base - layout[b] - pos ELSE base + pos + 1,
                 i - 1)]

BlockInputs == {blocks(layout) : layout \in BlockLayouts}

\* Sequences of a zero-size type: every element is the unit value.
ZstInputs == {[i \in 1 .. n |-> Elem(0, i - 1)] : n \in 0 .. (SmallLen + 1)}

InvalidOrds == {"less", "equal", "greater", "eq_less", "breaker", "reversed3",
                "streak_less", "streak_greater"}

Config(api, c, cseed, is_copy, zst) ==
    [api |-> api, cmp |-> c, cseed |-> cseed, is_copy |-> is_copy, zst |-> zst]

Configs ==
    {Config(api, "natural", 0, cp, FALSE) : api \in {"sort", "sort_by"}, cp \in BOOLEAN}
    \cup {Config("sort_by", c, 0, cp, FALSE) : c \in InvalidOrds, cp \in BOOLEAN}
    \cup {Config("sort_by", "random", cs, cp, FALSE) : cs \in 1 .. NumSeeds, cp \in BOOLEAN}

ZstConfigs ==
    {Config(api, "natural", 0, cp, TRUE) : api \in {"sort", "sort_by"}, cp \in BOOLEAN}

\* The machine as a call of sort or sort_by on input finds it.
Machine(cfg, in) ==
    [v |-> in, buf |-> <<>>, swap |-> <<>>, tmp |-> Uninit, stmp |-> Uninit,
     heap |-> [i \in 0 .. (Len(in) - 1) |-> 0],
     cfg |-> cfg, cnt |-> 0, lt |-> FALSE, last |-> <<-1, -1>>,
     panicAt |-> 0, panicked |-> FALSE, thrown |-> 0,
     hole |-> TMP, lifted |-> FALSE, mh |-> [start |-> 0, end |-> 0, dest |-> 0],
     cur |-> <<V(0), V(0), V(0)>>, start |-> 0, bufmax |-> 0,
     win |-> [src |-> V(0), dest |-> V(0), len |-> 0],
     selfcmp |-> FALSE, oob |-> FALSE, network |-> FALSE, assert |-> TRUE,
     entry |-> "", msg |-> "", gap |-> TRUE, buflen |-> 0,
     right |-> 0, out |-> 0, holeok |-> TRUE]

\* ----------------------------------------------------------- state machine

VARIABLES
    input,  \* the sequence as the caller passed it
    m,      \* the machine: memory, comparator state, observers
    pc,     \* "call", "detect", "extend", "collapse", "done", "panicked"
    runs,   \* merge_sort's stack of runs, runs[Len(runs)] the top
    end     \* merge_sort's boundary: v[end..] is covered by runs

vars == <<input, m, pc, runs, end>>

Init ==
    /\ \/ \E cfg \in Configs, in \in SmallInputs \cup PatternInputs \cup BlockInputs :
             /\ input = in
             /\ m = Machine(cfg, in)
       \/ \E cfg \in ZstConfigs, in \in ZstInputs :
             /\ input = in
             /\ m = Machine(cfg, in)
    /\ pc = "call"
    /\ runs = <<>>
    /\ end = 0

\* The harness makes the comparator panic only around a correct comparison
\* (panic_retain_original_set_impl): any of the calls r made beyond m's may be
\* the one that panics instead.
PanicPoints(r) ==
    IF m.cfg.cmp = "natural" /\ m.cfg.api = "sort_by" /\ m.panicAt = 0
    THEN (m.cnt + 1) .. r.cnt ELSE {}

\* The comparator set to panic on its k-th call (k = 0: never).
Armed(k) == [m EXCEPT !.panicAt = k]

\* How a step of the call ends: the panic unwinds out of sort_by, uncaught.
Exit(r, next) == IF r.panicked THEN "panicked" ELSE next

\* stable_sort on a zero-size type: returns at once.
SortZst ==
    /\ pc = "call"
    /\ size_of(m.cfg) = 0
    /\ pc' = "done"
    /\ UNCHANGED <<input, m, runs, end>>

\* merge_sort on a slice of at most MAX_INSERTION elements: sort_small.
SortSmall ==
    /\ pc = "call"
    /\ size_of(m.cfg) # 0
    /\ Len(m.v) <= MAX_INSERTION
    /\ \E k \in {0} \cup PanicPoints(sort_small(m)) :
          m' = sort_small(Armed(k))
    /\ pc' = Exit(m', "done")
    /\ UNCHANGED <<input, runs, end>>

\* merge_sort on a longer slice: allocate buf and the empty run stack.
SortBegin ==
    /\ pc = "call"
    /\ size_of(m.cfg) # 0
    /\ Len(m.v) > MAX_INSERTION
    /\ m' = with_capacity(m)
    /\ runs' = <<>>
    /\ end' = Len(m.v)
    /\ pc' = "detect"
    /\ UNCHANGED input

\* Find the next natural run, and reverse it if it is strictly descending.
DetectRun ==
    /\ pc = "detect"
    /\ end > 0
    /\ \E k \in {0} \cup PanicPoints(find_run(m, end)) :
          m' = find_run(Armed(k), end)
    /\ pc' = Exit(m', "extend")
    /\ UNCHANGED <<input, runs, end>>

\* provide_sorted_batch, then push the run onto the stack.
ExtendRun ==
    /\ pc = "extend"
    /\ \E k \in {0} \cup PanicPoints(provide_sorted_batch(m, m.start, end)) :
          m' = provide_sorted_batch(Armed(k), m.start, end)
    /\ pc' = Exit(m', "collapse")
    /\ IF m'.panicked
       THEN UNCHANGED <<runs, end>>
       ELSE /\ runs' = push_run(runs, m'.start, end)
            /\ end' = m'.start
    /\ UNCHANGED input

\* while let Some(r) = collapse(&runs): merge runs[r + 1] (left) and runs[r].
MergeRuns ==
    /\ pc = "collapse"
    /\ collapse(runs) # 0
    /\ \E k \in {0} \cup PanicPoints(merge_pair(m, runs)) :
          m' = merge_pair(Armed(k), runs)
    /\ pc' = Exit(m', "collapse")
    /\ runs' = IF m'.panicked THEN runs ELSE merged_runs(runs)
    /\ UNCHANGED <<input, end>>

\* collapse returned None: go on with the next run.
NoMerge ==
    /\ pc = "collapse"
    /\ collapse(runs) = 0
    /\ pc' = "detect"
    /\ UNCHANGED <<input, m, runs, end>>

\* end = 0: the loop is left and merge_sort returns.
Finish ==
    /\ pc = "detect"
    /\ end = 0
    /\ pc' = "done"
    /\ m' = merge_sort_end(m, runs)
    /\ UNCHANGED <<input, runs, end>>

Next ==
    \/ SortZst
    \/ SortSmall
    \/ SortBegin
    \/ DetectRun
    \/ ExtendRun
    \/ MergeRuns
    \/ NoMerge
    \/ Finish

Spec == Init /\ [][Next]_vars

\* sort_by has not returned and is not unwinding.  From each such position
\* one of the steps of Next can be taken: the guards of the steps at "call",
\* at "detect" and at "collapse" cover every case, the step at "extend" has
\* none.
Running == pc \notin {"done", "panicked"}

\* sort_by runs on its own thread of control until it returns or unwinds: a
\* step that can be taken is taken.  This is WF_vars(Next) written out, with
\* Running for ENABLED <<Next>>_vars and, every step that changes vars being
\* a step of Next, with <<TRUE>>_vars for <<Next>>_vars.
SpecLive == Init /\ [][Next]_vars /\ ([]<>(~Running) \/ []<><<TRUE>>_vars)

\* -------------------------------------------------------- foreign backends

ForeignBackends == {"cpp_pdqsort", "cpp_std_stable"}

\* Element types the harness instantiates a backend with.
ElementTypes == {"i32", "u64", "u128", "String", "()"}

\* A variant of specialized that also takes u128 for a supported type.
specialized_wide(ty) == ty \in {"i32", "u64", "u128"}

\* The element types PdqSort / CppSort are implemented for besides the default
\* impl<T>: impl PdqSort for i32, impl PdqSort for u64.
specialized(ty) == ty \in {"i32", "u64"}

\* The extern "C" function the impl for ty calls.
entry_point(backend, ty, api) ==
    CASE backend = "cpp_pdqsort" /\ ty = "i32" /\ api = "sort" -> "pdqsort_unstable_i32"
      [] backend = "cpp_pdqsort" /\ ty = "i32" -> "pdqsort_unstable_i32_by"
      [] backend = "cpp_pdqsort" /\ ty = "u64" /\ api = "sort" -> "pdqsort_unstable_u64"
      [] backend = "cpp_pdqsort" /\ ty = "u64" -> "pdqsort_unstable_u64_by"
      [] backend = "cpp_std_stable" /\ ty = "i32" /\ api = "sort" -> "sort_stable_i32"
      [] backend = "cpp_std_stable" /\ ty = "i32" -> "sort_stable_i32_by"
      [] backend = "cpp_std_stable" /\ ty = "u64" /\ api = "sort" -> "sort_stable_u64"
      [] OTHER -> "sort_stable_u64_by"

\* What a native entry point may leave in data.  Its code is not part of the
\* repository; it is held to the sorting contract: a non-decreasing
\* permutation of data, stable for cpp_std_stable.
native_results(backend, data) ==
    {[i \in 1 .. Len(data) |-> data[p[i]]] :
        p \in {q \in Permutations(1 .. Len(data)) :
                  \A i, j \in 1 .. Len(data) :
                      i < j => \/ data[q[i]].k < data[q[j]].k
                               \/ /\ data[q[i]].k = data[q[j]].k
                                  /\ (backend = "cpp_std_stable" => q[i] < q[j])}}

ForeignConfigs ==
    {Config(api, "natural", 0, specialized(ty), FALSE) @@ [backend |-> b, ty |-> ty] :
        api \in {"sort", "sort_by"}, b \in ForeignBackends, ty \in ElementTypes}

\* sort or sort_by of a foreign backend called on data.
InitForeign ==
    /\ \E cfg \in ForeignConfigs, in \in SmallInputs :
          /\ input = in
          /\ m = Machine(cfg, in)
    /\ pc = "call"
    /\ runs = <<>>
    /\ end = 0

\* impl<T> PdqSort for T (CppSort likewise): default fn sort, default fn
\* sort_by panic; _data and _compare are not used.
ForeignUnsupported ==
    /\ pc = "call"
    /\ ~specialized(m.cfg.ty)
    /\ m' = [m EXCEPT !.panicked = TRUE, !.msg = "Type not supported"]
    /\ pc' = "panicked"
    /\ UNCHANGED <<input, runs, end>>

\* impl PdqSort for i32 / u64 (CppSort likewise): the call of the native
\* entry point on data.as_mut_ptr(), data.len().
ForeignNative ==
    /\ pc = "call"
    /\ specialized(m.cfg.ty)
    /\ \E r \in native_results(m.cfg.backend, m.v) :
          m' = [m EXCEPT !.v = r,
                         !.entry = entry_point(m.cfg.backend, m.cfg.ty, m.cfg.api)]
    /\ pc' = "done"
    /\ UNCHANGED <<input, runs, end>>

NextForeign == ForeignUnsupported \/ ForeignNative

SpecForeign == InitForeign /\ [][NextForeign]_vars

\* ------------------------------------------------------------ merge alone

\* The non-decreasing sequences of keys of length n.
SortedKeys(n) ==
    {ks \in [1 .. n -> Keys] : \A i \in 1 .. (n - 1) : ks[i] <= ks[i + 1]}

\* Two adjacent non-empty non-decreasing runs, of at most SmallLen + 2
\* elements together: the keys of the left and of the right run.
RunPairs ==
    UNION {SortedKeys(ab[1]) \X SortedKeys(ab[2]) :
              ab \in {x \in (1 .. (SmallLen + 1)) \X (1 .. (SmallLen + 1)) :
                          x[1] + x[2] <= SmallLen + 2}}

\* merge_sort about to merge the two runs that make up v: the right run was
\* found and pushed first, the left run is the top of the stack.
InitMerge ==
    /\ \E cfg \in Configs, lr \in RunPairs :
          LET in == [i \in 1 .. (Len(lr[1]) + Len(lr[2])) |->
                        Elem((lr[1] \o lr[2])[i], i - 1)]
          IN  /\ input = in
              /\ m = with_capacity(Machine(cfg, in))
              /\ runs = <<[start |-> Len(lr[1]), len |-> Len(lr[2])],
                          [start |-> 0, len |-> Len(lr[1])]>>
    /\ pc = "collapse"
    /\ end = 0

NextMerge == MergeRuns \/ NoMerge \/ Finish

SpecMerge == InitMerge /\ [][NextMerge]_vars

\* ---------------------------------------------------------- collapse alone

RECURSIVE run_start(_, _, _)
\* The start of run i of a stack of adjacent runs with the lengths lens, whose
\* top run (the last, leftmost in v) starts at top.
run_start(lens, top, i) ==
    IF i = Len(lens) THEN top ELSE run_start(lens, top, i + 1) + lens[i + 1]

stack(lens, top) ==
    [i \in 1 .. Len(lens) |-> [start |-> run_start(lens, top, i), len |-> lens[i]]]

\* Stacks of adjacent runs down to the end of v; the top run starts at 0 or
\* at 1.
Stacks ==
    {stack(lens, top) :
        lens \in UNION {[1 .. n -> 1 .. MaxRunLen] : n \in 1 .. MaxRuns},
        top \in {0, 1}}

\* merge_sort has pushed a run and is about to ask collapse; every run is
\* non-decreasing (all elements are equal).
InitCollapse ==
    /\ \E st \in Stacks :
          LET in == [i \in 1 .. (st[1].start + st[1].len) |-> Elem(1, i - 1)]
          IN  /\ runs = st
              /\ input = in
              /\ m = with_capacity(Machine(Config("sort_by", "natural", 0, FALSE, FALSE), in))
              /\ end = st[Len(st)].start
    /\ pc = "collapse"

NextCollapse == MergeRuns \/ NoMerge

SpecCollapse == InitCollapse /\ [][NextCollapse]_vars

\* ---------------------------------------------------------- insertion alone

InsertOps == {"insert_tail", "insert_head"}

\* The sequences of 2 .. SmallLen + 1 elements insert_tail (insert_head) is
\* called on: all but the last (the first) element are non-decreasing.
InsertInputs(op) ==
    UNION {{[i \in 1 .. n |-> Elem(ks[i], i - 1)] :
               ks \in {x \in [1 .. n -> Keys] :
                          \A i \in 1 .. (n - 2) :
                              IF op = "insert_tail" THEN x[i] <= x[i + 1]
                              ELSE x[i + 1] <= x[i + 2]}} :
           n \in 2 .. (SmallLen + 1)}

\* A call of insert_tail or of insert_head on the whole of v.
InitInsert ==
    /\ \E cfg \in Configs, op \in InsertOps :
          \E in \in InsertInputs(op) :
             /\ input = in
             /\ m = Machine(cfg @@ [op |-> op], in)
    /\ pc = "call"
    /\ runs = <<>>
    /\ end = 0

\* insert_tail(v)
InsertTail ==
    /\ pc = "call"
    /\ m.cfg.op = "insert_tail"
    /\ \E k \in {0} \cup PanicPoints(insert_tail(m, 0, Len(m.v))) :
          m' = insert_tail(Armed(k), 0, Len(m.v))
    /\ pc' = Exit(m', "done")
    /\ UNCHANGED <<input, runs, end>>

\* insert_head(v)
InsertHead ==
    /\ pc = "call"
    /\ m.cfg.op = "insert_head"
    /\ \E k \in {0} \cup PanicPoints(insert_head(m, 0, Len(m.v))) :
          m' = insert_head(Armed(k), 0, Len(m.v))
    /\ pc' = Exit(m', "done")
    /\ UNCHANGED <<input, runs, end>>

NextInsert == InsertTail \/ InsertHead

SpecInsert == InitInsert /\ [][NextInsert]_vars

\* ------------------------------------------------------- small sorts alone

NetworkOps == {"swap_next_if_less", "sort2", "sort3", "sort4", "sort8", "sort16"}

\* The non-decreasing quadrants over two keys.
SortedQuads == {<<1, 1, 1, 1>>, <<1, 1, 1, 2>>, <<1, 1, 2, 2>>, <<1, 2, 2, 2>>,
                <<2, 2, 2, 2>>}

Indexed(ks) == [i \in 1 .. Len(ks) |-> Elem(ks[i], i - 1)]

\* The slices the small sorts are called on.  swap_next_if_less gets three
\* elements and works on the last two; sort2, sort3 and sort4 get every
\* sequence of 2, 3 and 4 keys; sort8 every sequence of 8 elements over two
\* keys and the patterns of length 8; sort16 the patterns of length 16 and the
\* sequences of four quadrants that are sorted already.
NetworkInputs(op) ==
    CASE op = "swap_next_if_less" -> {Indexed(ks) : ks \in [1 .. 3 -> Keys]}
      [] op = "sort2" -> {Indexed(ks) : ks \in [1 .. 2 -> Keys]}
      [] op = "sort3" -> {Indexed(ks) : ks \in [1 .. 3 -> Keys]}
      [] op = "sort4" -> {Indexed(ks) : ks \in [1 .. 4 -> Keys]}
      [] op = "sort8" ->
            {Indexed(ks) : ks \in [1 .. 8 -> {1, 2}]}
            \cup {in \in PatternInputs : Len(in) = 8}
      [] OTHER ->
            {Indexed(a \o b \o c \o d) : a \in SortedQuads, b \in SortedQuads,
                                         c \in SortedQuads, d \in SortedQuads}
            \cup {in \in PatternInputs : Len(in) = 16}

\* A call of a small sort on a slice of a trivially copyable type.
InitNetwork ==
    /\ \E cfg \in {c \in Configs : c.is_copy}, op \in NetworkOps :
          \E in \in NetworkInputs(op) :
             /\ input = in
             /\ m = Machine(cfg @@ [op |-> op], in)
    /\ pc = "call"
    /\ runs = <<>>
    /\ end = 0

\* swap_next_if_less(v.as_mut_ptr().add(1))
SwapNextIfLess ==
    /\ pc = "call"
    /\ m.cfg.op = "swap_next_if_less"
    /\ \E k \in {0} \cup PanicPoints(swap_next_if_less(m, V(1))) :
          m' = swap_next_if_less(Armed(k), V(1))
    /\ pc' = Exit(m', "done")
    /\ UNCHANGED <<input, runs, end>>

\* sort2(v)
Sort2 ==
    /\ pc = "call"
    /\ m.cfg.op = "sort2"
    /\ \E k \in {0} \cup PanicPoints(sort2(m, V(0))) : m' = sort2(Armed(k), V(0))
    /\ pc' = Exit(m', "done")
    /\ UNCHANGED <<input, runs, end>>

\* sort3(v)
Sort3 ==
    /\ pc = "call"
    /\ m.cfg.op = "sort3"
    /\ \E k \in {0} \cup PanicPoints(sort3(m, V(0))) : m' = sort3(Armed(k), V(0))
    /\ pc' = Exit(m', "done")
    /\ UNCHANGED <<input, runs, end>>

\* sort4(v)
Sort4 ==
    /\ pc = "call"
    /\ m.cfg.op = "sort4"
    /\ \E k \in {0} \cup PanicPoints(sort4(m, V(0))) : m' = sort4(Armed(k), V(0))
    /\ pc' = Exit(m', "done")
    /\ UNCHANGED <<input, runs, end>>

\* sort8(v)
Sort8 ==
    /\ pc = "call"
    /\ m.cfg.op = "sort8"
    /\ \E k \in {0} \cup PanicPoints(sort8(m, V(0))) : m' = sort8(Armed(k), V(0))
    /\ pc' = Exit(m', "done")
    /\ UNCHANGED <<input, runs, end>>

\* sort16(v)
Sort16 ==
    /\ pc = "call"
    /\ m.cfg.op = "sort16"
    /\ \E k \in {0} \cup PanicPoints(sort16(m, V(0))) : m' = sort16(Armed(k), V(0))
    /\ pc' = Exit(m', "done")
    /\ UNCHANGED <<input, runs, end>>

NextNetwork == SwapNextIfLess \/ Sort2 \/ Sort3 \/ Sort4 \/ Sort8 \/ Sort16

SpecNetwork == InitNetwork /\ [][NextNetwork]_vars

\* ------------------------------------------------------------- observations

Done == pc = "done"

Panicked == pc = "panicked"

\* The comparator is a valid total order (the natural order of the keys).
ValidOrder == m.cfg.cmp = "natural"

\* collapse demands a merge: the step taken from here is MergeRuns, the merge
\* of runs[collapse(runs) + 1] (the left run) with runs[collapse(runs)].
Merging == pc = "collapse" /\ collapse(runs) # 0

KeysOf(s) == [i \in 1 .. Len(s) |-> s[i].k]

Occurrences(s, k) == Cardinality({i \in 1 .. Len(s) : s[i].k = k})

\* s is non-decreasing in the keys.
NonDecreasing(s) == \A i \in 1 .. (Len(s) - 1) : s[i].k <= s[i + 1].k

\* s and t hold the same keys, each as often.
SameKeys(s, t) ==
    /\ Len(s) = Len(t)
    /\ \A i \in 1 .. Len(t) : Occurrences(s, t[i].k) = Occurrences(t, t[i].k)

Identity(e) == <<e.k, e.id>>

\* s holds exactly the elements of t (the input, whose elements are distinct),
\* each once: none duplicated, none lost.
SameElements(s, t) ==
    /\ Len(s) = Len(t)
    /\ {Identity(s[i]) : i \in 1 .. Len(s)} = {Identity(t[i]) : i \in 1 .. Len(t)}

\* comp_count of the element e, as the harness reads it after the call.
comp_count(e) ==
    IF m.cfg.is_copy
    THEN IF e.id \in DOMAIN m.heap THEN m.heap[e.id] ELSE 0
    ELSE e.cc

RECURSIVE SumCounters(_, _)
\* total_inner: the counters of the first n elements of s, summed.
SumCounters(s, n) == IF n = 0 THEN 0 ELSE comp_count(s[n]) + SumCounters(s, n - 1)

HasKey(s, k) == \E i \in 1 .. Len(s) : s[i].k = k

\* ------------------------------------------------------------------ claims

\* C1: when sort or sort_by returns under a valid total order, the sequence is
\* the non-decreasing permutation of the input, for every length and also
\* with i32::MIN and i32::MAX among the values.
C1_SortedPermutation ==
    (Done /\ ValidOrder /\ ~m.cfg.zst) =>
        (NonDecreasing(m.v) /\ SameKeys(m.v, input))

\* A long input holding both extremal values, not sorted to begin with, has
\* been sorted through runs and merges.
C1_Witness ==
    /\ Done /\ ValidOrder
    /\ Len(input) > MAX_INSERTION
    /\ HasKey(input, I32_MIN) /\ HasKey(input, I32_MAX)
    /\ ~NonDecreasing(input)
    /\ NonDecreasing(m.v)

\* C2: sort_by with a comparator that looks at the key only is stable: in the
\* output, elements with equal keys are in their original relative order.
C2_Stable ==
    (Done /\ ValidOrder /\ m.cfg.api = "sort_by") =>
        \A i, j \in 1 .. Len(m.v) :
            (i < j /\ m.v[i].k = m.v[j].k) => m.v[i].id < m.v[j].id

\* A long unsorted input with a repeated key went through the merge path.
C2_Witness ==
    /\ Done /\ ValidOrder /\ m.cfg.api = "sort_by"
    /\ Len(input) > MAX_INSERTION
    /\ m.bufmax > 0
    /\ ~NonDecreasing(input)
    /\ \E i, j \in 1 .. Len(input) : i < j /\ input[i].k = input[j].k

\* C3: after a comparator panic has propagated out of sort_by, the sequence
\* holds exactly the original elements, for every element type.
C3_PanicRetainsOriginalSet == Panicked => SameElements(m.v, input)

\* C4: under a comparator that violates the total order without panicking,
\* sort_by ends with the sequence holding exactly the original elements, for
\* every element type.
C4_ViolateOrdRetainsOriginalSet ==
    (Done /\ ~ValidOrder) => SameElements(m.v, input)

\* C5: every element carries a counter that the comparator increments on both
\* of its arguments; when sort_by exits, normally or by a comparator panic, the
\* counters of the elements of the sequence sum to twice the number of
\* comparator calls that completed.
C5_ObservableIsLess ==
    (Done \/ Panicked) => SumCounters(m.v, Len(m.v)) = 2 * m.cnt

\* C6: the comparator is never called with both references pointing at the
\* same slot.
C6_NoSelfComparison == ~m.selfcmp

\* A sort that compared slots of v, of buf, of the swap array and a lifted
\* element has returned.
C6_Witness ==
    /\ Done /\ m.cfg.is_copy
    /\ m.bufmax > 0
    /\ m.network
    /\ m.cnt > MAX_INSERTION

\* C7: a comparator panic is never caught or retried: once the comparator has
\* panicked, on its call number panicAt, the call has exited by the panic, the
\* comparator was called panicAt - 1 times before and never again; and a call
\* that returned normally saw no panic.
C7_PanicPropagates ==
    /\ m.thrown > 0 =>
          (Panicked /\ m.thrown = 1 /\ m.panicked /\ m.cnt = m.panicAt - 1)
    /\ Done => (m.thrown = 0 /\ ~m.panicked)

\* The comparator panicked on a later call of a long sort.
C7_Witness ==
    /\ Panicked /\ m.thrown = 1
    /\ Len(input) > MAX_INSERTION
    /\ m.panicAt > MAX_INSERTION

\* C8: for a zero-size element type, and for a sequence of length 0 or 1, sort
\* and sort_by leave the sequence unchanged and never call the comparator.
C8_NoOp ==
    (Done /\ (m.cfg.zst \/ Len(input) <= 1)) => (m.v = input /\ m.cnt = 0)

\* A sequence of several zero-size elements was left alone.
C8_Witness == Done /\ m.cfg.zst /\ Len(input) >= 2 /\ m.cnt = 0

\* C10: sort(seq) ends with the same sequence as sort_by(seq, natural_order)
\* ends with on an equal input.
C10_SortVsSortBy ==
    (Done /\ m.cfg.api = "sort") =>
        m.v = stable_sort(Machine([m.cfg EXCEPT !.api = "sort_by"], input)).v

\* sort has sorted a long unsorted sequence with repeated keys.
C10_Witness ==
    /\ Done /\ m.cfg.api = "sort"
    /\ Len(input) > MAX_INSERTION
    /\ ~NonDecreasing(input)
    /\ \E i, j \in 1 .. Len(input) : i < j /\ input[i].k = input[j].k

\* C11: under any comparator, valid or not, every read and write of sort_by is
\* in bounds: the sequence at indices in [0, len), the scratch buffer at
\* indices in [0, len / 2), and the cursors of the parity merges inside their
\* 8- or 16-slot source and destination ranges.
C11_InBounds == ~m.oob

\* A long sort of Copy elements under an inconsistent comparator has merged
\* through the scratch buffer and through the parity merges of sort16.
C11_Witness ==
    /\ Done /\ ~ValidOrder /\ m.cfg.is_copy
    /\ Len(input) > MAX_INSERTION
    /\ m.bufmax > 0
    /\ m.win.len = 16

\* C12: when a sort of more than MAX_INSERTION elements returns normally, the
\* run stack holds exactly one run, which starts at 0 and has the length of
\* the sequence: never no run, never several.
C12_OneRun ==
    (Done /\ size_of(m.cfg) # 0 /\ Len(input) > MAX_INSERTION) =>
        /\ Len(runs) = 1
        /\ runs[1].start = 0
        /\ runs[1].len = Len(input)

\* A sort of more than a hundred elements, found as six natural runs, has
\* merged them all and returned.
C12_Witness ==
    /\ Done
    /\ Len(input) > 100
    /\ m.bufmax > MAX_INSERTION
    /\ Len(runs) = 1

\* C13: on cpp_pdqsort and cpp_std_stable, sort and sort_by called with an
\* element type other than i32 or u64 panic with "Type not supported", having
\* neither called the comparator nor changed the data; exactly the calls with
\* i32 and u64 reach a native entry point.
C13_TypeNotSupported ==
    pc # "call" =>
        IF m.cfg.ty \in {"i32", "u64"}
        THEN Done /\ m.entry # "" /\ m.msg = ""
        ELSE /\ Panicked
             /\ m.msg = "Type not supported"
             /\ m.entry = ""
             /\ m.cnt = 0
             /\ m.v = input

\* sort_by of a foreign backend on an unsorted sequence of an unsupported type
\* has panicked.
C13_Witness ==
    /\ Panicked /\ m.msg = "Type not supported"
    /\ m.cfg.backend \in ForeignBackends
    /\ m.cfg.api = "sort_by"
    /\ m.cfg.ty = "String"
    /\ ~NonDecreasing(input)

\* C14: merge of two adjacent non-empty runs, each non-decreasing under a valid
\* comparator, leaves a non-decreasing permutation of the two runs in which no
\* element of the right run precedes an equal element of the left run; in
\* the forward and in the backward merge.
C14_Merge ==
    [][(Merging /\ ValidOrder /\ ~m'.panicked) =>
          LET left == runs[collapse(runs) + 1]
              FromLeft(el) ==
                  \E i \in (left.start + 1) .. (left.start + left.len) :
                      m.v[i].id = el.id
          IN  /\ NonDecreasing(m'.v)
              /\ SameElements(m'.v, m.v)
              /\ \A i, j \in 1 .. Len(m'.v) :
                     (i < j /\ m'.v[i].k = m'.v[j].k) =>
                         ~(FromLeft(m'.v[j]) /\ ~FromLeft(m'.v[i]))]_vars

\* A backward merge (the buffer, holding a right run of two or more elements,
\* was consumed from its end down to nothing) has interleaved two runs that
\* share a key.
C14_Witness ==
    /\ pc = "collapse" /\ Len(runs) = 1 /\ ValidOrder
    /\ m.mh.start = 0 /\ m.mh.end = 0
    /\ m.buflen >= 2 /\ m.buflen < Len(input) - m.buflen
    /\ m.v # input
    /\ \E i, j \in 1 .. Len(input) :
          /\ i <= Len(input) - m.buflen
          /\ j > Len(input) - m.buflen
          /\ input[i].k = input[j].k

\* C15: when the comparator panics at a comparison of merge, v holds
\* afterwards exactly the elements of the two runs, each once; and at every
\* comparison of merge the unconsumed part of the buffer is as long as the gap
\* between the output cursor and the unconsumed part of the longer run.
C15_MergeHole == m.gap /\ (Panicked => SameElements(m.v, input))

\* The comparator panicked in a merge after two or more elements had been
\* written to v and while two or more elements were only in the buffer.
C15_Witness ==
    /\ Panicked
    /\ m.cnt >= 2
    /\ m.mh.end - m.mh.start >= 2
    /\ m.gap

\* C16: merge of a left run of length a and a right run of length b calls the
\* comparator at most a + b - 1 times, under every comparator.
C16_MergeComparisons == m.cnt + m.thrown <= Len(input) - 1

\* A merge of six elements under an inconsistent comparator has made all of
\* its five comparisons.
C16_Witness ==
    /\ pc = "collapse" /\ Len(runs) = 1
    /\ ~ValidOrder
    /\ Len(input) >= 6
    /\ m.cnt = Len(input) - 1

\* C17: every merge of merge_sort copies the shorter of its two runs into the
\* buffer, at most len / 2 elements, the capacity allocated at the start of
\* the call; no access lies past the capacity.
C17_BufferShorterRun ==
    [][Merging =>
          LET left == runs[collapse(runs) + 1]
              right == runs[collapse(runs)]
          IN  /\ m'.buflen = (IF left.len <= right.len THEN left.len ELSE right.len)
              /\ m'.buflen <= Len(input) \div 2
              /\ Len(m'.buf) = Len(input) \div 2
              /\ ~m'.oob]_vars

\* The last merge of a long sort filled the buffer to its capacity.
C17_Witness ==
    /\ Done
    /\ Len(input) > MAX_INSERTION
    /\ m.buflen = Len(m.buf)
    /\ m.buflen = Len(input) \div 2

C19_StackInvariants ==
    (pc = "detect" /\ end > 0) =>
        \A i \in 1 .. Len(runs) :
            /\ i + 1 <= Len(runs) => runs[i].len > runs[i + 1].len
            /\ i + 2 <= Len(runs) => runs[i].len > runs[i + 1].len + runs[i + 2].len

\* The sort goes on to detect a run with five runs on the stack: one more than
\* collapse looks at.
C19_Witness ==
    /\ pc = "detect" /\ end > 0
    /\ Len(runs) >= 5
    /\ collapse(runs) = 0

\* C20: run detection at the boundary end under a valid comparator: when
\* v[end - 1] < v[end - 2], the maximal strictly descending range that ends at
\* end is reversed in place; otherwise the maximal non-decreasing range that
\* ends at end is left as it is.  Afterwards v[start..end] is non-decreasing,
\* no two equal elements have changed their order, and the elements outside
\* of start..end are untouched.
C20_DetectRun ==
    [][(pc = "detect" /\ end > 0 /\ ValidOrder /\ ~m'.panicked) =>
          LET s == m'.start
              k(i) == m.v[i + 1].k
              descending == end >= 2 /\ k(end - 1) < k(end - 2)
              Pos(el) == CHOOSE i \in 1 .. Len(m.v) : m.v[i].id = el.id
          IN  /\ 0 <= s /\ s < end
              /\ IF descending
                 THEN /\ \A i \in s .. (end - 2) : k(i) > k(i + 1)
                      /\ s > 0 => k(s - 1) <= k(s)
                      /\ \A i \in s .. (end - 1) :
                             Identity(m'.v[i + 1]) = Identity(m.v[s + end - i])
                 ELSE /\ \A i \in s .. (end - 2) : k(i) <= k(i + 1)
                      /\ s > 0 => k(s - 1) > k(s)
                      /\ \A i \in s .. (end - 1) :
                             Identity(m'.v[i + 1]) = Identity(m.v[i + 1])
              /\ \A i \in s .. (end - 2) : m'.v[i + 1].k <= m'.v[i + 2].k
              /\ \A i \in 0 .. (Len(m.v) - 1) :
                     (i < s \/ i >= end) =>
                         Identity(m'.v[i + 1]) = Identity(m.v[i + 1])
              /\ Len(m'.v) = Len(m.v)
              /\ \A i, j \in 1 .. Len(m.v) :
                     (i < j /\ m'.v[i].k = m'.v[j].k) => Pos(m'.v[i]) < Pos(m'.v[j])]_vars

\* A strictly descending run of three or more elements that stops at a tie
\* inside v has been reversed.
C20_Witness ==
    /\ pc = "extend" /\ ValidOrder
    /\ m.start > 0
    /\ end - m.start >= 3
    /\ m.v[m.start + 1].k < m.v[m.start + 2].k
    /\ m.v[m.start].k = m.v[end].k
    /\ ~NonDecreasing(input)
    /\ input[end].k < input[end - 1].k

\* C21: provide_sorted_batch, given the detected run [start, end), returns a
\* start' <= start with end - start' >= MIN_INSERTION_RUN unless start' = 0;
\* the elements outside of [start', end) are untouched, and under a valid
\* comparator v[start'..end] is non-decreasing.  The run is pushed as it was
\* returned, so every run on the stack has MIN_INSERTION_RUN or more elements
\* or starts at index 0.
C21_ProvideSortedBatch ==
    [][(pc = "extend" /\ ~m'.panicked) =>
          LET s == m'.start IN
          /\ 0 <= s /\ s <= m.start
          /\ end - s >= MIN_INSERTION_RUN \/ s = 0
          /\ Len(m'.v) = Len(m.v)
          /\ \A i \in 1 .. Len(m.v) :
                 (i <= s \/ i > end) => Identity(m'.v[i]) = Identity(m.v[i])
          /\ ValidOrder =>
                 /\ \A i \in (s + 1) .. (end - 1) : m'.v[i].k <= m'.v[i + 1].k
                 /\ {Identity(m'.v[i]) : i \in (s + 1) .. end}
                        = {Identity(m.v[i]) : i \in (s + 1) .. end}
          /\ runs' = Append(runs, [start |-> s, len |-> end - s])
          /\ \A i \in 1 .. Len(runs') :
                 runs'[i].len >= MIN_INSERTION_RUN \/ runs'[i].start = 0]_vars

\* A natural run of fewer than MIN_INSERTION_RUN elements that does not start
\* at index 0 has been extended over unsorted elements to exactly
\* MIN_INSERTION_RUN and pushed.
C21_Witness ==
    /\ pc = "collapse" /\ ValidOrder
    /\ Len(runs) >= 2
    /\ runs[Len(runs)].start = end /\ end > 0
    /\ runs[Len(runs)].len = MIN_INSERTION_RUN
    /\ \E i \in (end + 1) .. (end + MIN_INSERTION_RUN - 1) : input[i].k > input[i + 1].k
    /\ \A i \in (end + 1) .. (end + MIN_INSERTION_RUN - 1) : m.v[i].k <= m.v[i + 1].k

\* C22: insert_tail on a sequence of two or more elements whose elements but
\* the last are non-decreasing leaves a non-decreasing permutation of it, in
\* which the last element was placed after every element equal to it and the
\* other elements are in their former order; insert_head likewise inserts
\* the first element into the non-decreasing rest, before every element equal
\* to it.
C22_Insert ==
    (Done /\ ValidOrder) =>
        LET n == Len(input)
            tail == m.cfg.op = "insert_tail"
            x == IF tail THEN n - 1 ELSE 0
            at == CHOOSE i \in 1 .. n : m.v[i].id = x
        IN  /\ NonDecreasing(m.v)
            /\ SameElements(m.v, input)
            /\ \A i, j \in 1 .. n :
                   (i < j /\ m.v[i].id # x /\ m.v[j].id # x) => m.v[i].id < m.v[j].id
            /\ \A i \in 1 .. n :
                   (i # at /\ m.v[i].k = m.v[at].k) => (IF tail THEN i < at ELSE i > at)

\* insert_tail has moved the last element down by two or more slots, to just
\* behind an element equal to it.
C22_Witness ==
    /\ Done /\ ValidOrder /\ m.cfg.op = "insert_tail"
    /\ \E i \in 2 .. (Len(input) - 2) :
          /\ m.v[i].id = Len(input) - 1
          /\ m.v[i - 1].k = m.v[i].k

\* C23: when the comparator panics at a comparison of insert_tail or of
\* insert_head, the sequence holds afterwards every element it held before,
\* each once; and at every comparison made after the element was lifted, the
\* slot the InsertionHole guard would write to holds a copy of a neighbour,
\* and no other element is there twice.
C23_InsertionHole == m.holeok /\ (Panicked => SameElements(m.v, input))

\* The comparator panicked in insert_head after the first element had been
\* lifted and two or more elements had been moved down.
C23_Witness ==
    /\ Panicked /\ m.cfg.op = "insert_head"
    /\ m.cnt >= 2
    /\ m.hole = V(2)
    /\ m.v[3].id = 0
    /\ m.holeok

\* C24: on every slice of exactly 2, 3, 4, 8 and 16 elements of a trivially
\* copyable type and under a valid total order, sort2, sort3, sort4, sort8
\* and sort16 leave a non-decreasing permutation of the slice.
C24_SmallSorts ==
    (Done /\ ValidOrder /\ m.cfg.op # "swap_next_if_less") =>
        (NonDecreasing(m.v) /\ SameElements(m.v, input))

\* sort16 has sorted its quadrants and gone through the parity merges on a
\* slice that was not sorted.
C24_Witness ==
    /\ Done /\ ValidOrder /\ m.cfg.op = "sort16"
    /\ m.win.len = 16
    /\ ~NonDecreasing(input)
    /\ NonDecreasing(m.v)

\* C25: when the border comparison of sort8 (elements 3 and 4 after the
\* quadrant sorts) finds the border in order, and when all three border
\* comparisons of sort16 do, the function returns at once: the slice is as
\* the quadrant sorts left it, nothing was copied to a scratch array, no
\* parity merge ran and no comparison was made after the border ones.
C25_BordersInOrder ==
    /\ (Done /\ m.cfg.op = "sort8"
             /\ ~border(sort8_quadrants(Machine(m.cfg, input), V(0)), V(0), 4).lt) =>
          /\ m.v = sort8_quadrants(Machine(m.cfg, input), V(0)).v
          /\ m.swap = <<>>
          /\ m.win.len = 0
          /\ m.cnt = sort8_quadrants(Machine(m.cfg, input), V(0)).cnt + 1
    /\ (Done /\ m.cfg.op = "sort16"
             /\ ~sort16_borders(sort16_quadrants(Machine(m.cfg, input), V(0)), V(0)).lt) =>
          /\ m.v = sort16_quadrants(Machine(m.cfg, input), V(0)).v
          /\ m.swap = <<>>
          /\ m.win.len = 0
          /\ m.cnt = sort16_quadrants(Machine(m.cfg, input), V(0)).cnt + 3

\* sort16 found its three borders in order after the quadrant sorts had
\* moved elements, and returned without a scratch copy.
C25_Witness ==
    /\ Done /\ m.cfg.op = "sort16"
    /\ ~sort16_borders(sort16_quadrants(Machine(m.cfg, input), V(0)), V(0)).lt
    /\ m.v # input
    /\ m.swap = <<>>

\* C30: swap_next_if_less(p) exchanges p[0] and p[1] exactly when the
\* comparator finds p[1] less than p[0] (under a valid order: when its key
\* is strictly smaller, so equal elements are never exchanged); afterwards
\* the pair holds the same two elements and the slot before it is as it was;
\* a panic of the comparison leaves the pair untouched.
C30_SwapNextIfLess ==
    (m.cfg.op = "swap_next_if_less") =>
        /\ Done =>
              /\ m.cnt = 1
              /\ m.v = IF m.lt THEN <<input[1], input[3], input[2]>> ELSE input
              /\ ValidOrder => (m.lt <=> input[3].k < input[2].k)
        /\ Panicked => m.v = input

\* The comparison found two equal elements and left them in place.
C30_Witness ==
    /\ Done /\ ValidOrder /\ m.cfg.op = "swap_next_if_less"
    /\ input[2].k = input[3].k
    /\ m.v = input
    /\ m.cnt = 1

\* C26: for an element type that is not trivially copyable, sort_small and
\* provide_sorted_batch run no sort2, sort3, sort4, sort8, sort16 and no
\* parity merge (no network step, no scratch array, no parity-merge window);
\* they insert with insert_head alone, so that at each of its comparisons
\* exactly one element is lifted out of the sequence, and after a panic the
\* sequence holds every element once.
C26_NoNetworkForNonCopy ==
    (~m.cfg.is_copy) =>
        /\ ~m.network
        /\ m.swap = <<>>
        /\ m.win.len = 0
        /\ m.holeok
        /\ Panicked => SameElements(m.v, input)

\* A comparison of an insert_head of provide_sorted_batch panicked on a
\* sequence of non-Copy elements, too long for sort_small, with the sequence
\* not as it was on entry.
C26_Witness ==
    /\ Panicked /\ ~m.cfg.is_copy /\ ~m.cfg.zst
    /\ Len(input) > MAX_INSERTION
    /\ runs = <<>>
    /\ m.hole[1] = "v"
    /\ \E i \in 1 .. Len(input) : Identity(m.v[i]) # Identity(input[i])
    /\ SameElements(m.v, input)

\* C27: whenever merge_sort is about to call merge, the left run
\* runs[r + 1] and the right run runs[r] are adjacent (left.start + left.len
\* = right.start) and non-empty, mid = left.len lies strictly inside the
\* slice handed over, the slice lies inside v, and under a valid comparator
\* each of the two runs is non-decreasing.  After every push and every merge
\* the runs of the stack are non-empty and pairwise adjacent and tile
\* [end, len), the last pushed run being the leftmost.
C27_MergePreconditions ==
    /\ Merging =>
          /\ runs[collapse(runs) + 1].start + runs[collapse(runs) + 1].len
                = runs[collapse(runs)].start
          /\ runs[collapse(runs) + 1].len >= 1
          /\ runs[collapse(runs)].len >= 1
          /\ runs[collapse(runs) + 1].len
                < runs[collapse(runs)].start + runs[collapse(runs)].len
                  - runs[collapse(runs) + 1].start
          /\ runs[collapse(runs) + 1].start >= 0
          /\ runs[collapse(runs)].start + runs[collapse(runs)].len <= Len(m.v)
          /\ ValidOrder =>
                /\ NonDecreasing(SubSeq(m.v, runs[collapse(runs) + 1].start + 1,
                                        runs[collapse(runs)].start))
                /\ NonDecreasing(SubSeq(m.v, runs[collapse(runs)].start + 1,
                                        runs[collapse(runs)].start
                                        + runs[collapse(runs)].len))
    /\ (runs # <<>>) =>
          /\ runs[1].start + runs[1].len = Len(m.v)
          /\ runs[Len(runs)].start = end
          /\ \A j \in 1 .. Len(runs) : runs[j].len >= 1
          /\ \A j \in 1 .. (Len(runs) - 1) :
                runs[j + 1].start + runs[j + 1].len = runs[j].start
    /\ (runs = <<>> /\ pc \in {"detect", "extend", "collapse"}) => end = Len(m.v)

\* A merge is due below the top of a stack of three runs or more, one of them
\* longer than a run padded by insertion, under a valid comparator.
C27_Witness ==
    /\ Merging /\ ValidOrder
    /\ Len(runs) >= 3
    /\ collapse(runs) < Len(runs) - 1
    /\ \E j \in 1 .. Len(runs) : runs[j].len > MIN_INSERTION_RUN + 2

\* C28: sort_by terminates for every comparator that returns: it reaches the
\* normal exit, or the unwinding one if the comparator panics.  Each run
\* pushed moves end strictly down, and each merge takes one run off the
\* stack, so neither loop can go on for ever.
C28_Terminates ==
    /\ <>(Done \/ Panicked)
    /\ [][(pc = "extend" /\ ~m'.panicked) => (end' < end /\ end' >= 0)]_vars
    /\ [][(Merging /\ ~m'.panicked) => Len(runs') = Len(runs) - 1]_vars
    /\ [](Done => ~m.panicked)

\* merge_sort has returned from a long sequence with the whole of it in one
\* run.
C28_Witness ==
    /\ Done /\ end = 0
    /\ runs = <<[start |-> 0, len |-> Len(input)]>>
    /\ Len(input) > 3 * MIN_INSERTION_RUN

====
